---- MODULE Spec2Model ----
(***************************************************************************)
(* State-machine model of the hoprnet/edge-client orchestration core:      *)
(*   - SafelessInteractor::new and SafelessInteractor::deploy_safe         *)
(*     (src/src/blokli.rs), with the remote ledger as environment;         *)
(*   - Edgli::new, the ordered initialization sequence (src/src/client.rs).*)
(***************************************************************************)
EXTENDS Integers, Sequences, FiniteSets, TLC

(***************************************************************************)
(* Bounds of the model.                                                    *)
(***************************************************************************)
\* number of deploy_safe calls made on one interactor
MaxCalls == 2
\* registered processes, and HUP signals delivered to the supervisor
MaxProcs == 3
MaxHups == 2
\* stimuli delivered to the reactor, and slots of 20 s on its clock
MaxStimuli == 3
MaxSlots == 4
\* admins of the inputs, logs of a receipt, and calls of build_user_data
MaxAdmins == 2
MaxLogs == 2
MaxBuilds == 2
\* side effects of the task of run_hopr_edge_node_with
MaxEffects == 2

(***************************************************************************)
(* Program constants.                                                      *)
(***************************************************************************)
\* blokli.rs:30, in seconds
SAFE_RETRIEVAL_TIMEOUT == 60

\* strategy.rs:16 execution_interval, and the tick of client.rs:217, in seconds
ExecutionInterval == 60
TickInterval == 60

\* a suffix that lost its first byte
DEFAULT_TARGET_SUFFIX_Truncated == <<1, 3, 2, 2, 2, 2, 2, 2, 2, 2, 2>>

\* blokli/constants.rs:6
DEFAULT_TARGET_SUFFIX == <<1, 1, 3, 2, 2, 2, 2, 2, 2, 2, 2, 2>>

\* blokli/constants.rs:8-9
DEPLOY_SAFE_MODULE_AND_INCLUDE_NODES_IDENTIFIER ==
    <<1, 5, 185, 125, 205, 241, 157, 69, 78, 190, 54, 249, 30, 213, 22, 194,
      185, 14, 231, 159, 74, 70, 175, 150, 160, 19, 140, 31, 84, 3, 193, 204>>

\* the node's own address (chain_key.public().to_address()) and a foreign one
Me == "me"
Other == "other"
Owners == {Me, Other}

\* deployment nonces of SafeModuleDeploymentInputs and chain ids of the ledger
Nonces == {0, 7}
ChainIds == {100, 10200}

NoSafe == [address |-> 0, module |-> 0, owner |-> "none"]
NoInfo == [chain_id |-> 0, blob_ok |-> FALSE]
NoTx == [nonce |-> -1, chain_id |-> 0, signer |-> "none"]

\* a 256-bit unsigned value (hopr_lib::U256, alloy Uint<256, 4>) as its lowest
\* 64-bit limb `lo` and its three upper limbs `hi`: hi = 0 iff the value is below 2^64
U256(hi, lo) == [hi |-> hi, lo |-> lo]

\* deployment nonces of the inputs handed to deploy_safe: Nonces below 2^64 and
\* one nonce of at least 2^64
DeployNonces == {U256(0, n) : n \in Nonces} \cup {U256(1, 7)}

\* a narrowing cast that keeps the lowest limb
TryIntoU64_Truncating(v) == [ok |-> TRUE, value |-> v.lo]

\* Uint<256, 4> -> u64 of `nonce.try_into()?`: fails unless the value fits
TryIntoU64(v) ==
    IF v.hi = 0 THEN [ok |-> TRUE, value |-> v.lo] ELSE [ok |-> FALSE, value |-> 0]

VARIABLES
    \* ---- remote ledger (environment) ----
    chainSafes,     \* set of deployed safes: [address, module, owner]
    mempool,        \* signed transactions accepted by submit_transaction, not yet mined
    \* ---- SafelessInteractor ----
    dpc,            \* position of the interactor's current operation
    connectorBuilt, \* HoprBlockchainConnector::new was executed (self.connector)
    newResult,      \* outcome of SafelessInteractor::new
    calls,          \* number of deploy_safe calls started
    nonce,          \* inputs.nonce of the current call
    info,           \* chain info fetched by the current operation
    signedTx,       \* signed_tx of the current call
    submitRes,      \* the value bound to `transaction` (result of submit_transaction)
    clock,          \* seconds elapsed in the current confirmation wait
    nQuery, nSign, nSubmit, nAwait, \* per-call counters of the collaborator calls
    safeAtCall,     \* a safe owned by Me existed when the current call started
    results,        \* values returned by the completed deploy_safe calls
    \* ---- Edgli::new: arguments and build configuration ----
    cfgHost,        \* cfg.host.address: [type, address]
    preferLocal,    \* cfg.protocol.transport.prefer_local_addresses
    dbPathUtf8,     \* db_data_path.to_str() is Some
    blokliUrl,      \* blokli_url: Option<String>
    hasVisitor,     \* visitor is Some
    featBlokli,     \* the crate is built with feature "blokli"
    \* ---- Edgli::new: execution ----
    ipc,            \* position of Edgli::new
    events,         \* observer notifications and step work, in program order
    dbOpened,       \* init_hopr_node_db returned a node database
    safeConnector,  \* create_trustful_hopr_blokli_connector returned a connector
    connectCalls,   \* number of connector.connect() calls
    nodeCreated,    \* hopr_lib::Hopr::new returned a node
    nodeRunning,    \* node.run returned Ok
    netCalls,       \* number of calls that reach the network
    initResult,     \* value returned by Edgli::new
    \* the signal supervisor (lib.rs run_hopr_edge_node, main.rs main)
    spc,            \* position of the supervisor
    processes,      \* the registry: a sequence of process kinds, one handle each
    abortCalls,     \* indices of the handles on which abort() was called
    hups,           \* HUP signals handled so far
    defaultHandler, \* "none", "applied" or "failed": emulate_default_handler
    supResult,      \* how the supervisor ended
    \* run_hopr_edge_node_with (client.rs:54-71)
    withResult,     \* "none", "Err" or "AbortHandle": what the function returned
    taskState,      \* "none", "running" (spawned, at a suspension point),
                    \* "polling", "finished", "panicked" or "aborted"
    joinHandle,     \* "none", "held" or "dropped": the JoinHandle of the spawn
    taskAbort,      \* abort() was called on the returned handle
    taskEffects,    \* side effects committed by the task
    \* the strategy reactor (client.rs:203-220, strategy.rs)
    reactor,        \* "none", "running", "start_failed" or "aborted"
    onFailContinue, \* MultiStrategyConfig.on_fail_continue of the cfg argument
    now,            \* time in seconds since the reactor was started
    nextTick,       \* time of the next periodic tick
    log,            \* the stimuli handled so far, with the pass each one ran
    \* SafeModuleDeploymentInputs (blokli/contracts.rs)
    cpc,            \* position of SafeModuleDeploymentInputs::deploy
    inputs,         \* self: nonce, token_amount, admins
    network,        \* the network argument of deploy
    built,          \* the calls of build_user_data: arguments and returned bytes
    receipt,        \* the receipt of the pending transaction
    deployResult,   \* value returned by deploy
    \* connector instances (client.rs:144-156, 168, 189, 209, 215)
    connectors,     \* number of connectors constructed so far
    connOf          \* which connector each holder has, 0 for none

envVars == <<chainSafes, mempool>>
newVars == <<connectorBuilt, newResult>>
callVars == <<calls, nonce, safeAtCall>>
countVars == <<nQuery, nSign, nSubmit, nAwait>>
deployVars == <<dpc, connectorBuilt, newResult, calls, nonce, info, signedTx,
                submitRes, clock, nQuery, nSign, nSubmit, nAwait, safeAtCall,
                results>>

edgliArgs == <<cfgHost, preferLocal, dbPathUtf8, blokliUrl, hasVisitor, featBlokli>>
edgliVars == <<cfgHost, preferLocal, dbPathUtf8, blokliUrl, hasVisitor, featBlokli,
               ipc, events, dbOpened, safeConnector, connectCalls, nodeCreated,
               nodeRunning, netCalls, initResult>>

supVars == <<spc, processes, abortCalls, hups, defaultHandler, supResult>>

taskVars == <<withResult, taskState, joinHandle, taskAbort, taskEffects>>

reactorVars == <<reactor, onFailContinue, now, nextTick, log>>

contractVars == <<cpc, inputs, network, built, receipt, deployResult>>

connVars == <<connectors, connOf>>

\* everything outside the deployment pipeline and its ledger
nonDeployVars == <<edgliVars, supVars, taskVars, reactorVars, contractVars, connVars>>
\* everything outside Edgli::new
\* the same without the connector instances, for the steps that set them
nonEdgliConnVars == <<envVars, deployVars, supVars, taskVars, reactorVars, contractVars>>
nonEdgliVars == <<nonEdgliConnVars, connVars>>

\* everything outside the signal supervisor
nonSupVars == <<envVars, deployVars, edgliVars, taskVars, reactorVars, contractVars, connVars>>

\* everything outside the task of run_hopr_edge_node_with
nonTaskVars == <<envVars, deployVars, edgliVars, supVars, reactorVars, contractVars, connVars>>

\* everything outside the strategy reactor
\* the same without the connector instances, for the step that sets them
nonReactorConnVars == <<envVars, deployVars, edgliVars, supVars, taskVars, contractVars>>
nonReactorVars == <<nonReactorConnVars, connVars>>

\* everything outside SafeModuleDeploymentInputs
nonContractVars == <<envVars, deployVars, edgliVars, supVars, taskVars, reactorVars, connVars>>

vars == <<chainSafes, mempool, dpc, connectorBuilt, newResult, calls, nonce,
          info, signedTx, submitRes, clock, nQuery, nSign, nSubmit, nAwait,
          safeAtCall, results, cfgHost, preferLocal, dbPathUtf8, blokliUrl,
          hasVisitor, featBlokli, ipc, events, dbOpened, safeConnector,
          connectCalls, nodeCreated, nodeRunning, netCalls, initResult,
          spc, processes, abortCalls, hups, defaultHandler, supResult,
          withResult, taskState, joinHandle, taskAbort, taskEffects,
          reactor, onFailContinue, now, nextTick, log,
          cpc, inputs, network, built, receipt, deployResult,
          connectors, connOf>>

(***************************************************************************)
(* Pure helpers.                                                           *)
(***************************************************************************)
\* SafeSelector::Owner(me) applied to a deployed safe
SatisfiesOwner(safe, owner) == safe.owner = owner

\* the safes a subscription scoped by Owner(owner) can resolve with
MatchingSafes(owner) == {s \in chainSafes : SatisfiesOwner(s, owner)}

\* the two addresses taken from the wrong fields of the deployed safe
DeploymentResult_Swapped(safe) ==
    [safe_address |-> safe.module, module_address |-> safe.address]

\* SafeModuleDeploymentResult { safe_address: safe.address, module_address: safe.module }
DeploymentResult(safe) == [safe_address |-> safe.address, module_address |-> safe.module]

\* a decoder that falls back to default addresses instead of failing
DecodeContractAddresses_Lenient(i) == "Ok"

\* serde_json::from_str(&info.contract_addresses.0).map_err(TypeConversion)
DecodeContractAddresses(i) == IF i.blob_ok THEN "Ok" ELSE "TypeConversion"

\* a fresh safe/module pair created by mining a deployment transaction of `owner`
NewSafe(owner) ==
    LET n == Cardinality(chainSafes)
    IN  [address |-> 10 + n, module |-> 20 + n, owner |-> owner]

\* return of deploy_safe: the outcome and the value are recorded, the call ends
Return(outcome, value) ==
    /\ results' = Append(results,
                    [outcome |-> outcome, value |-> value, submits |-> nSubmit,
                     existed |-> safeAtCall, submitRes |-> submitRes])
    /\ dpc' = "idle"
    /\ clock' = 0

NoValue == DeploymentResult(NoSafe)

(***************************************************************************)
(* SafelessInteractor::new                                                 *)
(***************************************************************************)
\* blokli_client.query_chain_info().await?
NewQueryChainInfo ==
    /\ dpc = "new_query"
    /\ \E ok \in BOOLEAN, cid \in ChainIds, blob \in BOOLEAN :
         IF ok
         THEN /\ info' = [chain_id |-> cid, blob_ok |-> blob]
              /\ dpc' = "new_decode"
              /\ UNCHANGED newResult
         ELSE /\ newResult' = "RpcError"
              /\ dpc' = "new_failed"
              /\ UNCHANGED info
    /\ UNCHANGED <<nonDeployVars, envVars, connectorBuilt, callVars, signedTx, submitRes, clock,
                   countVars, results>>

\* serde_json::from_str(..).map_err(ConnectorError::TypeConversion)?
NewDecode ==
    /\ dpc = "new_decode"
    /\ IF DecodeContractAddresses(info) = "Ok"
       THEN /\ dpc' = "new_connector"
            /\ UNCHANGED newResult
       ELSE /\ newResult' = DecodeContractAddresses(info)
            /\ dpc' = "new_failed"
    /\ UNCHANGED <<nonDeployVars, envVars, connectorBuilt, callVars, info, signedTx, submitRes,
                   clock, countVars, results>>

\* BasicPayloadGenerator::new, TempDbBackend::new()?, HoprBlockchainConnector::new
NewConnector ==
    /\ dpc = "new_connector"
    /\ \E dbOk \in BOOLEAN :
         IF dbOk
         THEN /\ connectorBuilt' = TRUE
              /\ newResult' = "Ok"
              /\ dpc' = "idle"
         ELSE /\ newResult' = "DbError"
              /\ dpc' = "new_failed"
              /\ UNCHANGED connectorBuilt
    /\ info' = NoInfo
    /\ UNCHANGED <<nonDeployVars, envVars, callVars, signedTx, submitRes, clock, countVars, results>>

(***************************************************************************)
(* SafelessInteractor::deploy_safe                                         *)
(***************************************************************************)
\* entry of deploy_safe: `let me = ...`, then create_safe_deployment_payload is entered
DeployCall ==
    /\ dpc = "idle"
    /\ connectorBuilt
    /\ calls < MaxCalls
    /\ calls' = calls + 1
    /\ \E n \in DeployNonces : nonce' = n
    /\ safeAtCall' = (MatchingSafes(Me) # {})
    /\ nQuery' = 0 /\ nSign' = 0 /\ nSubmit' = 0 /\ nAwait' = 0
    /\ info' = NoInfo /\ signedTx' = NoTx /\ submitRes' = "none"
    /\ dpc' = "query"
    /\ UNCHANGED <<nonDeployVars, envVars, newVars, clock, results>>

\* create_safe_deployment_payload: self.connector.client().query_chain_info().await?
QueryChainInfo ==
    /\ dpc = "query"
    /\ nQuery' = nQuery + 1
    /\ \E ok \in BOOLEAN, cid \in ChainIds, blob \in BOOLEAN :
         IF ok
         THEN /\ info' = [chain_id |-> cid, blob_ok |-> blob]
              /\ dpc' = "decode"
              /\ UNCHANGED <<results, clock>>
         ELSE /\ Return("RpcError", NoValue)
              /\ UNCHANGED info
    /\ UNCHANGED <<nonDeployVars, envVars, newVars, callVars, signedTx, submitRes, nSign, nSubmit, nAwait>>

\* create_safe_deployment_payload: decoding of the contract-address blob
DecodeAddrs ==
    /\ dpc = "decode"
    /\ IF DecodeContractAddresses(info) = "Ok"
       THEN /\ dpc' = "build"
            /\ UNCHANGED <<results, clock>>
       ELSE Return(DecodeContractAddresses(info), NoValue)
    /\ UNCHANGED <<nonDeployVars, envVars, newVars, callVars, info, signedTx, submitRes, countVars>>

\* create_safe_deployment_payload: edge_node_deploy_safe_module_and_maybe_include_node(..)?
BuildPayload ==
    /\ dpc = "build"
    /\ \E ok \in BOOLEAN :
         IF ok
         THEN /\ dpc' = "sign"
              /\ UNCHANGED <<results, clock>>
         ELSE Return("PayloadError", NoValue)
    /\ UNCHANGED <<nonDeployVars, envVars, newVars, callVars, info, signedTx, submitRes, countVars>>

\* a signature made for one fixed chain, whatever the metadata query returned
SignPayload_FixedChain ==
    /\ dpc = "sign"
    /\ IF TryIntoU64(nonce).ok
       THEN /\ nSign' = nSign + 1
            /\ \E ok \in BOOLEAN :
                 IF ok
                 THEN /\ signedTx' = [nonce |-> TryIntoU64(nonce).value,
                                      chain_id |-> 100, signer |-> Me]
                      /\ dpc' = "submit"
                      /\ UNCHANGED <<results, clock>>
                 ELSE /\ Return("SignError", NoValue)
                      /\ UNCHANGED signedTx
       ELSE /\ Return("NonceConversion", NoValue)
            /\ UNCHANGED <<signedTx, nSign>>
    /\ UNCHANGED <<nonDeployVars, envVars, newVars, callVars, info, submitRes, nQuery, nSubmit, nAwait>>

\* create_safe_deployment_payload: payload.sign_and_encode_to_eip2718(nonce.try_into()?,
\* chain_id, None, key).await? -- the argument is converted before the call is made
SignPayload ==
    /\ dpc = "sign"
    /\ IF TryIntoU64(nonce).ok
       THEN /\ nSign' = nSign + 1
            /\ \E ok \in BOOLEAN :
                 IF ok
                 THEN /\ signedTx' = [nonce |-> TryIntoU64(nonce).value,
                                      chain_id |-> info.chain_id, signer |-> Me]
                      /\ dpc' = "submit"
                      /\ UNCHANGED <<results, clock>>
                 ELSE /\ Return("SignError", NoValue)
                      /\ UNCHANGED signedTx
       ELSE /\ Return("NonceConversion", NoValue)
            /\ UNCHANGED <<signedTx, nSign>>
    /\ UNCHANGED <<nonDeployVars, envVars, newVars, callVars, info, submitRes, nQuery, nSubmit, nAwait>>

\* deploy_safe: `let transaction = submit_transaction(client, signed_tx).await;`
\* the Result is bound and logged, never inspected
SubmitTransaction ==
    /\ dpc = "submit"
    /\ nSubmit' = nSubmit + 1
    /\ \E accepted \in BOOLEAN :
         IF accepted
         THEN /\ submitRes' = "ok"
              /\ mempool' = mempool \cup {[tx |-> signedTx, seq |-> calls]}
         ELSE /\ submitRes' = "err"
              /\ UNCHANGED mempool
    /\ dpc' = "await"
    /\ nAwait' = nAwait + 1
    /\ clock' = 0
    /\ UNCHANGED <<nonDeployVars, chainSafes, newVars, callVars, info, signedTx, nQuery, nSign, results>>

\* await_safe_deployment(SafeSelector::Owner(me), SAFE_RETRIEVAL_TIMEOUT): the
\* subscription resolves with a safe matching the selector
AwaitResolve ==
    /\ dpc = "await"
    /\ \E safe \in MatchingSafes(Me) : Return("Ok", DeploymentResult(safe))
    /\ UNCHANGED <<nonDeployVars, envVars, newVars, callVars, info, signedTx, submitRes, countVars>>

\* one second of the confirmation wait passes without a resolution
AwaitTick ==
    /\ dpc = "await"
    /\ clock < SAFE_RETRIEVAL_TIMEOUT
    /\ clock' = clock + 1
    /\ UNCHANGED <<nonDeployVars, envVars, dpc, newVars, callVars, info, signedTx, submitRes,
                   countVars, results>>

\* a wait that answers the elapsed timer by submitting the transaction again
AwaitTimeout_Resubmit ==
    /\ dpc = "await"
    /\ clock = SAFE_RETRIEVAL_TIMEOUT
    /\ dpc' = "submit"
    /\ clock' = 0
    /\ UNCHANGED <<nonDeployVars, envVars, newVars, callVars, info, signedTx, submitRes,
                   countVars, results>>

\* the timer of the confirmation wait elapses: `.map_err(anyhow::Error::from)?`
AwaitTimeout ==
    /\ dpc = "await"
    /\ clock = SAFE_RETRIEVAL_TIMEOUT
    /\ Return("Timeout", NoValue)
    /\ UNCHANGED <<nonDeployVars, envVars, newVars, callVars, info, signedTx, submitRes, countVars>>

(***************************************************************************)
(* Remote ledger.                                                          *)
(***************************************************************************)
\* a pending deployment transaction is mined: it creates a safe/module pair
\* owned by its signer, or it reverts
MineTransaction ==
    /\ \E t \in mempool :
         /\ mempool' = mempool \ {t}
         /\ \E reverted \in BOOLEAN :
              chainSafes' = IF reverted THEN chainSafes
                            ELSE chainSafes \cup {NewSafe(t.tx.signer)}
    /\ UNCHANGED <<deployVars, nonDeployVars>>

(***************************************************************************)
(* Edgli::new: the initialization sequence.                                *)
(***************************************************************************)
\* EdgliInitState, in declaration order (client.rs:24-52)
ValidatingConfig == 1
IdentifyingNode == 2
InitializingDatabase == 3
ConnectingBlockchain == 4
CreatingNode == 5
\* the StartingNode step announcing the state of the step before it
StartingNode_Dup == CreatingNode
StartingNode == 6
Ready == 7
InitStates == ValidatingConfig..Ready

\* std::net::Ipv4Addr::from_str on a dotted string, given as its '.'-separated
\* decimal fields: four fields, each within a byte
ParsesAsIpv4(address) ==
    /\ Len(address) = 4
    /\ \A i \in 1..Len(address) : address[i] \in 0..255

\* a loopback test that knows 127.0.0.1 only
IsLoopback_OnlyLocalhost(address) == address = <<127, 0, 0, 1>>

\* Ipv4Addr::is_loopback: 127.0.0.0/8
IsLoopback(address) == address[1] = 127

\* url.parse::<Url>() on the override provider URL
ParsesAsUrl(url) == url = "https://blokli.example"

\* the bind-address check of Edgli::new (client.rs:104-113)
ValidateHost(host, prefer) ==
    IF host.type = "IPv4"
    THEN IF ~ParsesAsIpv4(host.address) THEN "ConfigError"
         ELSE IF IsLoopback(host.address) /\ ~prefer THEN "LoopbackError"
         ELSE "Ok"
    ELSE "Ok"

\* `if let Some(ref v) = visitor { v(state); }`: the trace after the notification
Notified(state) ==
    IF hasVisitor THEN Append(events, [kind |-> "notify", state |-> state])
    ELSE events

\* a piece of work of step `state`, recorded after the step's notification
Work(trace, state, what) == Append(trace, [kind |-> what, state |-> state])

\* an error that is recorded while the sequence goes on to its last step
Fail_Swallow(error) ==
    /\ initResult' = error
    /\ ipc' = "ready"

\* `?` on an Err: Edgli::new returns the error
Fail(error) ==
    /\ initResult' = error
    /\ ipc' = "failed"

\* client.rs:101-113
EdgliValidatingConfig ==
    /\ ipc = "validating"
    /\ events' = Work(Notified(ValidatingConfig), ValidatingConfig, "validate")
    /\ IF ValidateHost(cfgHost, preferLocal) = "Ok"
       THEN /\ ipc' = "identifying"
            /\ UNCHANGED initResult
       ELSE Fail(ValidateHost(cfgHost, preferLocal))
    /\ UNCHANGED <<nonEdgliVars, edgliArgs, dbOpened, safeConnector, connectCalls,
                   nodeCreated, nodeRunning, netCalls>>

\* an IdentifyingNode step whose statements sit inside the observer's `if let`
EdgliIdentifyingNode_OnlyObserved ==
    /\ ipc = "identifying"
    /\ events' = IF hasVisitor
                 THEN Work(Notified(IdentifyingNode), IdentifyingNode, "log_identifiers")
                 ELSE events
    /\ ipc' = "init_db"
    /\ UNCHANGED <<nonEdgliVars, edgliArgs, dbOpened, safeConnector, connectCalls,
                   nodeCreated, nodeRunning, netCalls, initResult>>

\* client.rs:115-124
EdgliIdentifyingNode ==
    /\ ipc = "identifying"
    /\ events' = Work(Notified(IdentifyingNode), IdentifyingNode, "log_identifiers")
    /\ ipc' = "init_db"
    /\ UNCHANGED <<nonEdgliVars, edgliArgs, dbOpened, safeConnector, connectCalls,
                   nodeCreated, nodeRunning, netCalls, initResult>>

\* client.rs:127-137
EdgliInitializingDatabase ==
    /\ ipc = "init_db"
    /\ IF ~dbPathUtf8
       THEN /\ events' = Work(Notified(InitializingDatabase), InitializingDatabase, "path_to_str")
            /\ Fail("InvalidDbPath")
            /\ UNCHANGED dbOpened
       ELSE /\ events' = Work(Notified(InitializingDatabase), InitializingDatabase, "init_hopr_node_db")
            /\ \E ok \in BOOLEAN :
                 IF ok
                 THEN /\ dbOpened' = TRUE
                      /\ ipc' = IF featBlokli THEN "connecting" ELSE "creating"
                      /\ UNCHANGED initResult
                 ELSE /\ Fail("DbError")
                      /\ UNCHANGED dbOpened
    /\ UNCHANGED <<nonEdgliVars, edgliArgs, safeConnector, connectCalls, nodeCreated,
                   nodeRunning, netCalls>>

\* client.rs:139-153, #[cfg(feature = "blokli")]
EdgliConnectingBlockchain ==
    /\ ipc = "connecting"
    /\ IF blokliUrl # "none" /\ ~ParsesAsUrl(blokliUrl)
       THEN /\ events' = Work(Notified(ConnectingBlockchain), ConnectingBlockchain, "parse_url")
            /\ Fail("UrlParseError")
            /\ UNCHANGED <<safeConnector, netCalls, connVars>>
       ELSE /\ events' = Work(Notified(ConnectingBlockchain), ConnectingBlockchain, "create_connector")
            /\ netCalls' = netCalls + 1
            /\ \E ok \in BOOLEAN :
                 IF ok
                 THEN /\ safeConnector' = TRUE
                      /\ connectors' = connectors + 1
                      /\ connOf' = [connOf EXCEPT !["chain_connector"] = connectors + 1]
                      /\ ipc' = "connect"
                      /\ UNCHANGED initResult
                 ELSE /\ Fail("ConnectorError")
                      /\ UNCHANGED <<safeConnector, connVars>>
    /\ UNCHANGED <<nonEdgliConnVars, edgliArgs, dbOpened, connectCalls, nodeCreated, nodeRunning>>

\* a handshake that is tried a second time after a failure
EdgliConnect_Retry ==
    /\ ipc = "connect"
    /\ events' = Work(events, ConnectingBlockchain, "connect")
    /\ connectCalls' = connectCalls + 1
    /\ netCalls' = netCalls + 1
    /\ \E ok \in BOOLEAN :
         IF ok
         THEN /\ ipc' = "creating"
              /\ UNCHANGED initResult
         ELSE IF connectCalls = 0
         THEN UNCHANGED <<ipc, initResult>>
         ELSE Fail("ConnectError")
    /\ UNCHANGED <<nonEdgliVars, edgliArgs, dbOpened, safeConnector, nodeCreated, nodeRunning>>

\* client.rs:154-156: connector.connect().await?
EdgliConnect ==
    /\ ipc = "connect"
    /\ events' = Work(events, ConnectingBlockchain, "connect")
    /\ connectCalls' = connectCalls + 1
    /\ netCalls' = netCalls + 1
    /\ \E ok \in BOOLEAN :
         IF ok
         THEN /\ ipc' = "creating"
              /\ UNCHANGED initResult
         ELSE Fail("ConnectError")
    /\ UNCHANGED <<nonEdgliVars, edgliArgs, dbOpened, safeConnector, nodeCreated, nodeRunning>>

\* client.rs:159-173
EdgliCreatingNode ==
    /\ ipc = "creating"
    /\ events' = Work(Notified(CreatingNode), CreatingNode, "hopr_new")
    /\ \E ok \in BOOLEAN :
         IF ok
         THEN /\ nodeCreated' = TRUE
              /\ connOf' = [connOf EXCEPT !["node"] = connOf["chain_connector"]]
              /\ ipc' = "starting"
              /\ UNCHANGED initResult
         ELSE /\ Fail("NodeError")
              /\ UNCHANGED <<nodeCreated, connOf>>
    /\ UNCHANGED <<nonEdgliConnVars, connectors, edgliArgs, dbOpened, safeConnector,
                   connectCalls, nodeRunning, netCalls>>

\* a StartingNode step that does not look at the result of node.run
EdgliStartingNode_IgnoreRunError ==
    /\ ipc = "starting"
    /\ events' = Work(Notified(StartingNode), StartingNode, "node_run")
    /\ netCalls' = netCalls + 1
    /\ \E ok \in BOOLEAN : nodeRunning' = ok
    /\ ipc' = "ready"
    /\ UNCHANGED <<nonEdgliVars, edgliArgs, dbOpened, safeConnector, connectCalls,
                   nodeCreated, initResult>>

\* client.rs:175-181
EdgliStartingNode ==
    /\ ipc = "starting"
    /\ events' = Work(Notified(StartingNode), StartingNode, "node_run")
    /\ netCalls' = netCalls + 1
    /\ \E ok \in BOOLEAN :
         IF ok
         THEN /\ nodeRunning' = TRUE
              /\ ipc' = "ready"
              /\ UNCHANGED initResult
         ELSE /\ Fail("RunError")
              /\ UNCHANGED nodeRunning
    /\ UNCHANGED <<nonEdgliVars, edgliArgs, dbOpened, safeConnector, connectCalls, nodeCreated>>

\* client.rs:183-190
EdgliReady ==
    /\ ipc = "ready"
    /\ events' = Notified(Ready)
    /\ initResult' = "Ok"
    /\ ipc' = "returned"
    /\ connOf' = [connOf EXCEPT !["blokli_connector"] = connOf["chain_connector"]]
    /\ UNCHANGED <<nonEdgliConnVars, connectors, edgliArgs, dbOpened, safeConnector,
                   connectCalls, nodeCreated, nodeRunning, netCalls>>

(***************************************************************************)
(* Initial states.                                                         *)
(***************************************************************************)
InitialSafes ==
    { {}, {[address |-> 5, module |-> 6, owner |-> Other]},
      {[address |-> 3, module |-> 4, owner |-> Me]},
      {[address |-> 5, module |-> 6, owner |-> Other],
       [address |-> 3, module |-> 4, owner |-> Me]} }

\* the interactor before SafelessInteractor::new has run
DeployInit ==
    /\ mempool = {}
    /\ dpc = "new_query"
    /\ connectorBuilt = FALSE
    /\ newResult = "none"
    /\ calls = 0
    /\ nonce = U256(0, 0)
    /\ info = NoInfo
    /\ signedTx = NoTx
    /\ submitRes = "none"
    /\ clock = 0
    /\ nQuery = 0 /\ nSign = 0 /\ nSubmit = 0 /\ nAwait = 0
    /\ safeAtCall = FALSE
    /\ results = <<>>

\* bind addresses given to Edgli::new
HostAddresses ==
    { [type |-> "IPv4", address |-> <<127, 0, 0, 1>>],
      [type |-> "IPv4", address |-> <<127, 255, 0, 3>>],
      [type |-> "IPv4", address |-> <<10, 0, 0, 1>>],
      [type |-> "IPv4", address |-> <<256, 0, 0, 1>>],
      [type |-> "IPv4", address |-> <<10, 0, 1>>],
      [type |-> "Domain", address |-> <<127, 0, 0, 1>>] }

BlokliUrls == {"none", "https://blokli.example", "not a url"}

\* Edgli::new before its first statement
EdgliStart ==
    /\ ipc = "validating"
    /\ events = <<>>
    /\ dbOpened = FALSE
    /\ safeConnector = FALSE
    /\ connectCalls = 0
    /\ nodeCreated = FALSE
    /\ nodeRunning = FALSE
    /\ netCalls = 0
    /\ initResult = "none"

EdgliInit ==
    /\ cfgHost \in HostAddresses
    /\ preferLocal \in BOOLEAN
    /\ dbPathUtf8 \in BOOLEAN
    /\ blokliUrl \in BlokliUrls
    /\ hasVisitor \in BOOLEAN
    /\ featBlokli \in BOOLEAN
    /\ EdgliStart

\* one fixed set of Edgli arguments, for the specifications that do not run Edgli::new
EdgliDefault ==
    /\ cfgHost = [type |-> "IPv4", address |-> <<10, 0, 0, 1>>]
    /\ preferLocal = FALSE
    /\ dbPathUtf8 = TRUE
    /\ blokliUrl = "none"
    /\ hasVisitor = TRUE
    /\ featBlokli = TRUE
    /\ EdgliStart

(***************************************************************************)
(* The signal supervisor: lib.rs:94-133 and main.rs:195-232.  The stream   *)
(* is registered for HUP and INT only, so no other signal reaches the      *)
(* match.                                                                  *)
(***************************************************************************)
ProcessKinds == {"HoprLib", "Hopr"}

Handles == DOMAIN processes

\* main.rs:196 `processes.await?`: the registry is obtained, or the error is
\* returned by `?`
JoinProcesses ==
    /\ spc = "join"
    /\ \E ok \in BOOLEAN :
         IF ok THEN spc' = "signals_new" /\ supResult' = supResult
               ELSE spc' = "returned" /\ supResult' = "JoinError"
    /\ UNCHANGED <<nonSupVars, processes, abortCalls, hups, defaultHandler>>

\* lib.rs:102, main.rs:198-199 Signals::new([Hup, Int]) with map_err and `?`
SignalsNew ==
    /\ spc = "signals_new"
    /\ \E ok \in BOOLEAN :
         IF ok THEN spc' = "loop" /\ supResult' = supResult
               ELSE spc' = "returned" /\ supResult' = "OsError"
    /\ UNCHANGED <<nonSupVars, processes, abortCalls, hups, defaultHandler>>

\* a HUP arm that tears the node down as the INT arm does
HandleHup_TearDown ==
    /\ spc = "loop"
    /\ hups < MaxHups
    /\ hups' = hups + 1
    /\ spc' = "aborting"
    /\ UNCHANGED <<nonSupVars, processes, abortCalls, defaultHandler, supResult>>

\* lib.rs:105-107, main.rs:202-204: the arm only logs
HandleHup ==
    /\ spc = "loop"
    /\ hups < MaxHups
    /\ hups' = hups + 1
    /\ UNCHANGED <<nonSupVars, spc, processes, abortCalls, defaultHandler, supResult>>

\* lib.rs:108-110, main.rs:205-207: INT enters the tear down
HandleInt ==
    /\ spc = "loop"
    /\ spc' = "aborting"
    /\ UNCHANGED <<nonSupVars, processes, abortCalls, hups, defaultHandler, supResult>>

\* lib.rs:110-121, main.rs:207-219: for_each_concurrent calls abort() on the
\* handle of every process, in no fixed order
AbortHandle(h) ==
    /\ spc = "aborting"
    /\ h \in Handles \ abortCalls
    /\ abortCalls' = abortCalls \cup {h}
    /\ UNCHANGED <<nonSupVars, spc, processes, hups, defaultHandler, supResult>>

\* a default handler emulated without awaiting the stream of aborts
EmulateDefaultHandler_Early ==
    /\ spc = "aborting"
    /\ \E outcome \in {"Killed", "Ok", "Err"} :
         /\ defaultHandler' = IF outcome = "Err" THEN "failed" ELSE "applied"
         /\ supResult' = outcome
    /\ spc' = "returned"
    /\ UNCHANGED <<nonSupVars, processes, abortCalls, hups>>

\* lib.rs:123-126, main.rs:221-224: after the stream of aborts has been awaited,
\* the default action of INT is emulated: it ends the process, or the call
\* returns and the loop breaks with Ok(()), or its error is returned by `?`
EmulateDefaultHandler ==
    /\ spc = "aborting"
    /\ abortCalls = Handles
    /\ \E outcome \in {"Killed", "Ok", "Err"} :
         /\ defaultHandler' = IF outcome = "Err" THEN "failed" ELSE "applied"
         /\ supResult' = outcome
    /\ spc' = "returned"
    /\ UNCHANGED <<nonSupVars, processes, abortCalls, hups>>

\* lib.rs:103, main.rs:200: the stream ends or yields an error, `while let`
\* stops and the function returns Ok(()) at lib.rs:132, main.rs:230
SignalStreamEnds ==
    /\ spc = "loop"
    /\ spc' = "returned"
    /\ supResult' = "StreamEnded"
    /\ UNCHANGED <<nonSupVars, processes, abortCalls, hups, defaultHandler>>

\* the supervisor before it runs
SupervisorStart ==
    /\ spc = "join"
    /\ abortCalls = {}
    /\ hups = 0
    /\ defaultHandler = "none"
    /\ supResult = "none"

\* lib.rs:94-100, main.rs:195-196: any registry of up to MaxProcs processes
SupervisorInit ==
    /\ processes \in UNION {[1..n -> ProcessKinds] : n \in 0..MaxProcs}
    /\ SupervisorStart

SupervisorIdle ==
    /\ processes = <<>>
    /\ SupervisorStart

(***************************************************************************)
(* run_hopr_edge_node_with: client.rs:54-71.  The task is the future       *)
(* f(edgli.hopr) wrapped by abortable and handed to tokio::spawn.          *)
(***************************************************************************)
\* client.rs:67 `Edgli::new(...).await?` on an error
RunWithFails ==
    /\ ipc = "failed"
    /\ withResult = "none"
    /\ withResult' = "Err"
    /\ UNCHANGED <<nonTaskVars, taskState, joinHandle, taskAbort, taskEffects>>

\* a task that is spawned without waiting for the result of Edgli::new
RunWithSpawns_BeforeReady ==
    /\ withResult = "none"
    /\ reactor = "none"
    /\ taskState' = "running"
    /\ joinHandle' = "dropped"
    /\ withResult' = "AbortHandle"
    /\ UNCHANGED <<nonTaskVars, taskAbort, taskEffects>>

\* client.rs:68-70: f is called on the node, the abortable task is spawned, its
\* JoinHandle is bound to _jh and dropped at the end of the function, and the
\* abort handle is returned; the task waits to be polled
RunWithSpawns ==
    /\ ipc = "returned"
    /\ withResult = "none"
    /\ reactor = "none"
    /\ taskState' = "running"
    /\ joinHandle' = "dropped"
    /\ withResult' = "AbortHandle"
    /\ UNCHANGED <<nonTaskVars, taskAbort, taskEffects>>

\* the caller uses the abort handle of client.rs:70: the flag of the Abortable
\* is set, whatever the task is doing
AbortTask ==
    /\ withResult = "AbortHandle"
    /\ ~taskAbort
    /\ taskAbort' = TRUE
    /\ UNCHANGED <<nonTaskVars, withResult, taskState, joinHandle, taskEffects>>

\* client.rs:68-69: the runtime polls the Abortable, which polls the future of
\* f since its flag is not set: the future runs on from its suspension point
TaskPoll ==
    /\ taskState = "running"
    /\ ~taskAbort
    /\ taskState' = "polling"
    /\ UNCHANGED <<nonTaskVars, withResult, joinHandle, taskAbort, taskEffects>>

\* the future of f, while polled, commits a side effect
TaskEffect ==
    /\ taskState = "polling"
    /\ taskEffects < MaxEffects
    /\ taskEffects' = taskEffects + 1
    /\ UNCHANGED <<nonTaskVars, withResult, taskState, joinHandle, taskAbort>>

\* the future of f reaches an .await that is not ready and returns Pending
TaskSuspend ==
    /\ taskState = "polling"
    /\ taskState' = "running"
    /\ UNCHANGED <<nonTaskVars, withResult, joinHandle, taskAbort, taskEffects>>

\* an Abortable that stops the future of f in the middle of a poll
TaskAborted_Preempting ==
    /\ taskState \in {"running", "polling"}
    /\ taskAbort
    /\ taskState' = "aborted"
    /\ UNCHANGED <<nonTaskVars, withResult, joinHandle, taskAbort, taskEffects>>

\* client.rs:68 Abortable: polled with its flag set, it drops the suspended
\* future of f and the task ends as aborted
TaskAborted ==
    /\ taskState = "running"
    /\ taskAbort
    /\ taskState' = "aborted"
    /\ UNCHANGED <<nonTaskVars, withResult, joinHandle, taskAbort, taskEffects>>

\* client.rs:69: the future built by f completes
TaskFinishes ==
    /\ taskState = "polling"
    /\ taskState' = "finished"
    /\ UNCHANGED <<nonTaskVars, withResult, joinHandle, taskAbort, taskEffects>>

\* client.rs:69: the future built by f panics; the runtime stores the panic in
\* the join result of the task
TaskPanics ==
    /\ taskState = "polling"
    /\ taskState' = "panicked"
    /\ UNCHANGED <<nonTaskVars, withResult, joinHandle, taskAbort, taskEffects>>

\* the error a holder of the JoinHandle gets from awaiting it
JoinResult ==
    IF joinHandle = "held" /\ taskState = "panicked" THEN "TaskJoinError" ELSE "none"

\* the places that hold a connector: the local of Edgli::new, the node, the
\* field of Edgli, the MultiStrategy and the chain event subscription
Holders == {"chain_connector", "node", "blokli_connector", "strategy", "subscription"}

\* no connector has been constructed
NoConnectors ==
    /\ connectors = 0
    /\ connOf = [h \in Holders |-> 0]

\* client.rs:54-66: before the call
TaskStart ==
    /\ withResult = "none"
    /\ taskState = "none"
    /\ joinHandle = "none"
    /\ taskAbort = FALSE
    /\ taskEffects = 0

(***************************************************************************)
(* The strategy reactor.  run_reactor_from_cfg (client.rs:203-220) builds  *)
(* a MultiStrategy from the configuration and hands it, the chain event    *)
(* subscription, the winning ticket subscription and the tick period to    *)
(* stream_events_to_strategy_with_tick.  Both live in hopr_strategy, whose *)
(* source is not part of src/: the handling of a stimulus is modelled      *)
(* after the StrategyReactor contract of the specification.                *)
(***************************************************************************)
\* strategy.rs:17-25: the ordered strategy list of the default configuration
DefaultStrategies == <<"AutoFunding", "ClosureFinalizer">>

\* strategy.rs:14
DefaultOnFailContinue == TRUE

\* client.rs:215-217: the three merged sources
StimulusClasses == {"chain_event", "ticket_event", "tick"}

Instants == {20 * k : k \in 0..MaxSlots}

\* the instants at which a pass was run
PassTimes == {log[i].at : i \in {j \in DOMAIN log : log[j].ran}}

\* a throttle kept per stimulus class
Throttled_PerClass(class, t) ==
    \E i \in DOMAIN log :
        log[i].ran /\ log[i].class = class /\ t - log[i].at < ExecutionInterval

\* a pass is not entered within one execution_interval of the pass before it,
\* whatever the class of the stimulus
Throttled(class, t) == \E p \in PassTimes : t - p < ExecutionInterval

\* a pass that stops at the first failure whatever the configuration says
RunPass_StopAlways(strategies, failing, continue) ==
    LET FirstFail == {i \in DOMAIN strategies : strategies[i] \in failing}
        last == IF FirstFail = {} THEN Len(strategies)
                ELSE CHOOSE i \in FirstFail : \A j \in FirstFail : i <= j
    IN  [i \in 1..last |->
            [strategy |-> strategies[i],
             result |-> IF strategies[i] \in failing THEN "failed" ELSE "ok"]]

\* one evaluation pass over the ordered list: the strategies in `failing` fail;
\* the pass goes past a failure only with on_fail_continue
RECURSIVE RunPass(_, _, _)
RunPass(strategies, failing, continue) ==
    IF strategies = <<>> THEN <<>>
    ELSE LET h == Head(strategies)
         IN  IF h \in failing
             THEN <<[strategy |-> h, result |-> "failed"]>> \o
                  (IF continue THEN RunPass(Tail(strategies), failing, continue)
                   ELSE <<>>)
             ELSE <<[strategy |-> h, result |-> "ok"]>> \o
                  RunPass(Tail(strategies), failing, continue)

\* client.rs:207-219: the MultiStrategy is built and the stream started, or an
\* error of redemption_requests / subscribe is returned by `?`
\* a reactor that constructs a connector of its own
RunReactorFromCfg_OwnConnector ==
    /\ reactor = "none"
    /\ initResult = "Ok"
    /\ featBlokli
    /\ withResult = "none"
    /\ \E outcome \in {"Ok", "RedemptionError", "SubscribeError"} :
         /\ IF outcome = "Ok"
            THEN /\ reactor' = "running"
                 /\ \E first \in {now, now + TickInterval} : nextTick' = first
            ELSE reactor' = "start_failed" /\ nextTick' = nextTick
         /\ connOf' = [connOf EXCEPT
                !["strategy"] = IF outcome = "RedemptionError" THEN 0 ELSE connectors + 1,
                !["subscription"] = IF outcome = "Ok" THEN connectors + 1 ELSE 0]
    /\ connectors' = connectors + 1
    /\ UNCHANGED <<nonReactorConnVars, onFailContinue, now, log>>

\* client.rs:203-204: called on an Edgli that the caller got from Edgli::new
\* (run_hopr_edge_node_with keeps its Edgli to itself); on
\* an error of redemption_requests (client.rs:210) no strategy is built; on
\* an error of subscribe (client.rs:215) the strategy holds the connector already
RunReactorFromCfg ==
    /\ reactor = "none"
    /\ initResult = "Ok"
    /\ featBlokli
    /\ withResult = "none"
    /\ \E outcome \in {"Ok", "RedemptionError", "SubscribeError"} :
         /\ IF outcome = "Ok"
            THEN /\ reactor' = "running"
                 /\ \E first \in {now, now + TickInterval} : nextTick' = first
            ELSE reactor' = "start_failed" /\ nextTick' = nextTick
         /\ connOf' = [connOf EXCEPT
                !["strategy"] = IF outcome = "RedemptionError" THEN 0 ELSE connOf["blokli_connector"],
                !["subscription"] = IF outcome = "Ok" THEN connOf["blokli_connector"] ELSE 0]
    /\ UNCHANGED <<nonReactorConnVars, connectors, onFailContinue, now, log>>

\* a reactor that a failed strategy takes down
Handle_Crashing(class) ==
    /\ reactor = "running"
    /\ Len(log) < MaxStimuli
    /\ \E failing \in SUBSET {DefaultStrategies[i] : i \in DOMAIN DefaultStrategies} :
         LET ran == ~Throttled(class, now)
             pass == IF ran THEN RunPass(DefaultStrategies, failing, onFailContinue)
                     ELSE <<>>
         IN  /\ log' = Append(log, [class |-> class, at |-> now, ran |-> ran,
                                    pass |-> pass])
             /\ reactor' = IF \E i \in DOMAIN pass : pass[i].result = "failed"
                           THEN "crashed" ELSE reactor

\* one stimulus of the merged stream: it runs one evaluation pass unless a pass
\* was run less than execution_interval ago; failures stay inside the pass
Handle(class) ==
    /\ reactor = "running"
    /\ Len(log) < MaxStimuli
    /\ \E failing \in SUBSET {DefaultStrategies[i] : i \in DOMAIN DefaultStrategies} :
         LET ran == ~Throttled(class, now)
         IN  log' = Append(log, [class |-> class, at |-> now, ran |-> ran,
                                 pass |-> IF ran
                                          THEN RunPass(DefaultStrategies, failing,
                                                       onFailContinue)
                                          ELSE <<>>])
    /\ reactor' = reactor

\* client.rs:215: an event of the chain subscription
ChainEvent ==
    /\ Handle("chain_event")
    /\ UNCHANGED <<nonReactorVars, onFailContinue, now, nextTick>>

\* client.rs:216: a winning ticket
TicketEvent ==
    /\ Handle("ticket_event")
    /\ UNCHANGED <<nonReactorVars, onFailContinue, now, nextTick>>

\* client.rs:217: the periodic tick
Tick ==
    /\ now = nextTick
    /\ Handle("tick")
    /\ nextTick' = nextTick + TickInterval
    /\ UNCHANGED <<nonReactorVars, onFailContinue, now>>

\* time passes, up to the next tick
Advance ==
    /\ reactor = "running"
    /\ \E t \in Instants :
         /\ now < t
         /\ t <= nextTick
         /\ now' = t
    /\ UNCHANGED <<nonReactorVars, reactor, onFailContinue, nextTick, log>>

\* client.rs:206: the caller uses the returned AbortHandle
AbortReactor ==
    /\ reactor = "running"
    /\ reactor' = "aborted"
    /\ UNCHANGED <<nonReactorVars, onFailContinue, now, nextTick, log>>

\* client.rs:203-206 before the call
ReactorStart ==
    /\ reactor = "none"
    /\ now = 0
    /\ nextTick = 0
    /\ log = <<>>

\* the cfg argument: the default configuration of strategy.rs:13-26, or the
\* same with on_fail_continue switched off by the caller
ReactorInit ==
    /\ onFailContinue \in BOOLEAN
    /\ ReactorStart

ReactorIdle ==
    /\ onFailContinue = DefaultOnFailContinue
    /\ ReactorStart

(***************************************************************************)
(* SafeModuleDeploymentInputs: blokli/contracts.rs:31-96.  Byte strings    *)
(* are sequences of numbers below 256.                                     *)
(***************************************************************************)
\* the big-endian bytes of n on len bytes
RECURSIVE BigEndian(_, _)
BigEndian(n, len) ==
    IF len = 0 THEN <<>> ELSE BigEndian(n \div 256, len - 1) \o <<n % 256>>

\* a uint256 word of the ABI
Word(n) == BigEndian(n, 32)

\* an address word of the ABI: the 20 bytes left-padded to 32
AddressWord(a) == BigEndian(0, 12) \o a

\* the 20-byte address whose bytes are all b
Addr(b) == [i \in 1..20 |-> b]

AdminAddresses == {Addr(170), Addr(187)}

Networks == {"net_a", "net_b"}

\* the channels contract of a network
ChannelsAddress(net) == IF net = "net_a" THEN Addr(17) ELSE Addr(34)

\* contracts.rs:44,46: CHANNELS_CONTRACT_ADDRESS + DEFAULT_TARGET_SUFFIX as bytes32
BuildDefaultTarget(net) == ChannelsAddress(net) \o DEFAULT_TARGET_SUFFIX

RECURSIVE Flatten(_)
Flatten(words) == IF words = <<>> THEN <<>> ELSE Head(words) \o Flatten(Tail(words))

\* the encoding of the four values as a parameter list: three static words, the
\* offset of the dynamic array, then its length and its elements
AbiEncodeParams(id, nonceValue, target, admins) ==
    id \o Word(nonceValue) \o target \o Word(128) \o Word(Len(admins)) \o
    Flatten([i \in DOMAIN admins |-> AddressWord(admins[i])])

\* an encoder that writes the members of the tuple without the offset word
AbiEncode_NoOffset(id, nonceValue, target, admins) ==
    AbiEncodeParams(id, nonceValue, target, admins)

\* contracts.rs:48-53 UserDataTuple::abi_encode: the tuple has a dynamic member,
\* so its encoding as one value starts with the offset word 0x20
AbiEncode(id, nonceValue, target, admins) ==
    Word(32) \o AbiEncodeParams(id, nonceValue, target, admins)

\* contracts.rs:45-58
BuildUserData(self, net) ==
    LET default_target == BuildDefaultTarget(net)
        user_data_with_offset ==
            AbiEncode(DEPLOY_SAFE_MODULE_AND_INCLUDE_NODES_IDENTIFIER, self.nonce,
                      default_target, self.admins)
    IN  SubSeq(user_data_with_offset, 33, Len(user_data_with_offset))

NoLog == [event |-> "none", instance |-> "none"]

\* contracts.rs:81,85 receipt.decoded_log::<E>(): the first log of the event
DecodedLog(logs, event) ==
    LET hits == {i \in DOMAIN logs : logs[i].event = event}
    IN  IF hits = {} THEN NoLog
        ELSE logs[CHOOSE i \in hits : \A j \in hits : i <= j]

\* a deploy that accepts a receipt without the module event
DeployOutcome_ModuleOptional(rcpt) ==
    LET safe_log == DecodedLog(rcpt.logs, "NewHoprNodeStakeSafe")
        module_log == DecodedLog(rcpt.logs, "NewHoprNodeStakeModule")
    IN  IF safe_log = NoLog
        THEN [kind |-> "Err", error |-> "DecodeEventError",
              event |-> "NewHoprNodeStakeSafe"]
        ELSE [kind |-> "Ok", tx_hash |-> rcpt.transaction_hash,
              safe_address |-> safe_log.instance,
              module_address |-> module_log.instance]

\* contracts.rs:81-94
DeployOutcome(rcpt) ==
    LET safe_log == DecodedLog(rcpt.logs, "NewHoprNodeStakeSafe")
        module_log == DecodedLog(rcpt.logs, "NewHoprNodeStakeModule")
    IN  IF safe_log = NoLog
        THEN [kind |-> "Err", error |-> "DecodeEventError",
              event |-> "NewHoprNodeStakeSafe"]
        ELSE IF module_log = NoLog
        THEN [kind |-> "Err", error |-> "DecodeEventError",
              event |-> "NewHoprNodeStakeModule"]
        ELSE [kind |-> "Ok", tx_hash |-> rcpt.transaction_hash,
              safe_address |-> safe_log.instance,
              module_address |-> module_log.instance]

Built(self, net) == [nonce |-> self.nonce, admins |-> self.admins, network |-> net,
                     out |-> BuildUserData(self, net)]

\* contracts.rs:45: a caller of the public build_user_data, with any network;
\* room is left for the call made by deploy
BuildUserDataCall ==
    /\ Len(built) < MaxBuilds - (IF cpc = "idle" THEN 1 ELSE 0)
    /\ \E net \in Networks : built' = Append(built, Built(inputs, net))
    /\ UNCHANGED <<nonContractVars, cpc, inputs, network, receipt, deployResult>>

\* contracts.rs:66-78: the user data is built and passed to send; an error of
\* the call is returned by `?`
DeploySend ==
    /\ cpc = "idle"
    /\ built' = Append(built, Built(inputs, network))
    /\ \E ok \in BOOLEAN :
         IF ok THEN cpc' = "get_receipt" /\ deployResult' = deployResult
               ELSE /\ cpc' = "returned"
                    /\ deployResult' = [kind |-> "Err", error |-> "ContractError"]
    /\ UNCHANGED <<nonContractVars, inputs, network, receipt>>

ReceiptLogs ==
    [event : {"NewHoprNodeStakeSafe", "NewHoprNodeStakeModule", "Transfer"},
     instance : {"a1", "a2"}]

Receipts ==
    [transaction_hash : {"h1", "h2"},
     logs : UNION {[1..n -> ReceiptLogs] : n \in 0..MaxLogs}]

\* contracts.rs:80 get_receipt: the receipt of the mined transaction, or a
\* PendingTransactionError (the watcher timed out or failed) returned by `?`
GetReceipt ==
    /\ cpc = "get_receipt"
    /\ \/ /\ receipt' \in Receipts
          /\ cpc' = "decode"
          /\ deployResult' = deployResult
       \/ /\ receipt' = receipt
          /\ cpc' = "returned"
          /\ deployResult' = [kind |-> "Err", error |-> "PendingTransactionError"]
    /\ UNCHANGED <<nonContractVars, inputs, network, built>>

\* contracts.rs:81-94
DecodeLogs ==
    /\ cpc = "decode"
    /\ deployResult' = DeployOutcome(receipt)
    /\ cpc' = "returned"
    /\ UNCHANGED <<nonContractVars, inputs, network, built, receipt>>

NoReceipt == [transaction_hash |-> "none", logs |-> <<>>]

\* contracts.rs:61-65 before the call
ContractStart ==
    /\ cpc = "idle"
    /\ built = <<>>
    /\ receipt = NoReceipt
    /\ deployResult = [kind |-> "none"]

\* contracts.rs:32-38 SafeModuleDeploymentInputs::new, and the network argument
ContractInit ==
    /\ inputs \in [nonce : Nonces \cup {258}, token_amount : {1000},
                   admins : UNION {[1..n -> AdminAddresses] : n \in 0..MaxAdmins}]
    /\ network \in Networks
    /\ ContractStart

\* one admin, nonce 7, token_amount 1000, on either network
ContractExample ==
    /\ inputs = [nonce |-> 7, token_amount |-> 1000, admins |-> <<Addr(170)>>]
    /\ network \in Networks
    /\ ContractStart

ContractIdle ==
    /\ inputs = [nonce |-> 0, token_amount |-> 1000, admins |-> <<>>]
    /\ network = "net_a"
    /\ ContractStart

(***************************************************************************)
(* Specifications.                                                         *)
(***************************************************************************)
\* the state after construction of every part
Init ==
    /\ chainSafes \in InitialSafes
    /\ DeployInit
    /\ EdgliInit
    /\ SupervisorInit
    /\ TaskStart /\ NoConnectors
    /\ ReactorInit
    /\ ContractInit

DeployNext ==
    \/ NewQueryChainInfo
    \/ NewDecode
    \/ NewConnector
    \/ DeployCall
    \/ QueryChainInfo
    \/ DecodeAddrs
    \/ BuildPayload
    \/ SignPayload
    \/ SubmitTransaction
    \/ AwaitResolve
    \/ AwaitTick
    \/ AwaitTimeout
    \/ MineTransaction

EdgliNext ==
    \/ EdgliValidatingConfig
    \/ EdgliIdentifyingNode
    \/ EdgliInitializingDatabase
    \/ EdgliConnectingBlockchain
    \/ EdgliConnect
    \/ EdgliCreatingNode
    \/ EdgliStartingNode
    \/ EdgliReady

SupervisorNext ==
    \/ JoinProcesses
    \/ SignalsNew
    \/ HandleHup
    \/ HandleInt
    \/ \E h \in Handles : AbortHandle(h)
    \/ EmulateDefaultHandler
    \/ SignalStreamEnds

RunWithNext ==
    \/ RunWithFails
    \/ RunWithSpawns
    \/ AbortTask
    \/ TaskPoll
    \/ TaskEffect
    \/ TaskSuspend
    \/ TaskAborted
    \/ TaskFinishes
    \/ TaskPanics

ReactorNext ==
    \/ RunReactorFromCfg
    \/ ChainEvent
    \/ TicketEvent
    \/ Tick
    \/ Advance
    \/ AbortReactor

ContractNext ==
    \/ BuildUserDataCall
    \/ DeploySend
    \/ GetReceipt
    \/ DecodeLogs

Next ==
    \/ DeployNext \/ EdgliNext \/ SupervisorNext \/ RunWithNext \/ ReactorNext
    \/ ContractNext

\* the whole program
Spec == Init /\ [][Next]_vars

\* the safe deployment pipeline against the ledger
DeploySpecInit ==
    /\ chainSafes \in InitialSafes /\ DeployInit /\ EdgliDefault
    /\ SupervisorIdle /\ TaskStart /\ NoConnectors /\ ReactorIdle /\ ContractIdle
DeploySpec == DeploySpecInit /\ [][DeployNext]_vars

\* the initialization sequence, over every argument combination
EdgliSpecInit ==
    /\ chainSafes = {} /\ DeployInit /\ EdgliInit
    /\ SupervisorIdle /\ TaskStart /\ NoConnectors /\ ReactorIdle /\ ContractIdle
EdgliSpec == EdgliSpecInit /\ [][EdgliNext]_vars

\* the signal supervisor, over every registry of up to MaxProcs processes
SupervisorSpecInit ==
    /\ chainSafes = {} /\ DeployInit /\ EdgliDefault
    /\ SupervisorInit /\ TaskStart /\ NoConnectors /\ ReactorIdle /\ ContractIdle
SupervisorSpec == SupervisorSpecInit /\ [][SupervisorNext]_vars

\* run_hopr_edge_node_with: the initialization sequence followed by the task
RunWithSpecInit ==
    /\ chainSafes = {} /\ DeployInit /\ EdgliInit
    /\ SupervisorIdle /\ TaskStart /\ NoConnectors /\ ReactorIdle /\ ContractIdle
RunWithStep == EdgliNext \/ RunWithNext
RunWithSpec == RunWithSpecInit /\ [][RunWithStep]_vars

\* the reactor of an initialized Edgli, for both values of on_fail_continue
ReactorSpecInit ==
    /\ chainSafes = {} /\ DeployInit /\ EdgliDefault
    /\ SupervisorIdle /\ TaskStart /\ NoConnectors /\ ReactorInit /\ ContractIdle
ReactorStep == EdgliNext \/ ReactorNext
ReactorSpec == ReactorSpecInit /\ [][ReactorStep]_vars

\* what may start after Edgli::new, over every argument combination: the task
\* of run_hopr_edge_node_with, or the reactor of a caller of Edgli::new
StartSpecInit ==
    /\ chainSafes = {} /\ DeployInit /\ EdgliInit
    /\ SupervisorIdle /\ TaskStart /\ NoConnectors /\ ReactorInit /\ ContractIdle
StartStep == EdgliNext \/ RunWithNext \/ RunReactorFromCfg \/ AbortReactor
StartSpec == StartSpecInit /\ [][StartStep]_vars

\* deploy of SafeModuleDeploymentInputs, over every network and receipt
ContractSpecInit ==
    /\ chainSafes = {} /\ DeployInit /\ EdgliDefault
    /\ SupervisorIdle /\ TaskStart /\ NoConnectors /\ ReactorIdle /\ ContractExample
ContractStep == DeploySend \/ GetReceipt \/ DecodeLogs
ContractSpec == ContractSpecInit /\ [][ContractStep]_vars

\* build_user_data, called directly and by deploy, over every input and network
UserDataSpecInit ==
    /\ chainSafes = {} /\ DeployInit /\ EdgliDefault
    /\ SupervisorIdle /\ TaskStart /\ NoConnectors /\ ReactorIdle /\ ContractInit
UserDataStep == BuildUserDataCall \/ DeploySend
UserDataSpec == UserDataSpecInit /\ [][UserDataStep]_vars

(***************************************************************************)
(* Properties of the deployment pipeline (checked under DeploySpec).       *)
(***************************************************************************)
Completed == DOMAIN results

\* the value a successful call returns is the pair of a safe of the ledger owned by Me
ReturnsSafeOfMe(r) ==
    \E s \in chainSafes :
        /\ s.owner = Me
        /\ r.value.safe_address = s.address
        /\ r.value.module_address = s.module

\* no collaborator call of deploy_safe happens twice within one call
NoStepRepeated == nQuery <= 1 /\ nSign <= 1 /\ nSubmit <= 1 /\ nAwait <= 1

\* C1: when a safe owned by the node's address exists at the moment deploy is
\* called, the call signs and submits no transaction, and a call that returns
\* a result returns an existing safe/module pair having submitted nothing.
C1_ExistingSafeNoTransaction ==
    /\ safeAtCall => (nSign = 0 /\ nSubmit = 0)
    /\ \A i \in Completed :
         results[i].existed =>
            /\ results[i].submits = 0
            /\ results[i].outcome = "Ok" => ReturnsSafeOfMe(results[i])

\* C2: two sequential successful deploy calls of the same owner return the same
\* {safe_address, module_address}, and the second one submits no transaction.
C2_SecondCallIdempotent ==
    \A i \in Completed, j \in Completed :
        (j = i + 1 /\ results[i].outcome = "Ok" /\ results[j].outcome = "Ok") =>
            /\ results[j].value = results[i].value
            /\ results[j].submits = 0

\* C3: the confirmation wait lasts at most SAFE_RETRIEVAL_TIMEOUT; when the bound
\* is reached the timeout can fire, and with no matching safe on the ledger the
\* call can only end with a timeout error, carrying no result and submitting
\* nothing again.
C3_WaitState ==
    /\ dpc = "await" => (clock \in 0..SAFE_RETRIEVAL_TIMEOUT /\ nSubmit = 1 /\ nAwait = 1)
    /\ (dpc = "await" /\ clock = SAFE_RETRIEVAL_TIMEOUT) => ENABLED AwaitTimeout
    /\ \A i \in Completed :
         results[i].outcome = "Timeout" =>
            (results[i].value = NoValue /\ results[i].submits = 1)

C3_WaitStep ==
    (dpc = "await" /\ clock = SAFE_RETRIEVAL_TIMEOUT /\ dpc' # "await"
        /\ MatchingSafes(Me) = {}) =>
        /\ Len(results') = Len(results) + 1
        /\ results'[Len(results')].outcome = "Timeout"
        /\ results'[Len(results')].value = NoValue
        /\ dpc' = "idle"
        /\ nSubmit' = nSubmit
        /\ mempool' = mempool

C3_TimeoutBoundsWait == [][C3_WaitStep]_vars /\ []C3_WaitState

\* a call timed out after one submission while the ledger held no safe of Me
C3_Witness ==
    /\ MatchingSafes(Me) = {}
    /\ dpc = "idle"
    /\ \E i \in Completed : results[i].outcome = "Timeout" /\ results[i].submits = 1

\* C4: the confirmation wait has exactly one winner: leaving the wait records
\* exactly one outcome, success (with the addresses of a safe owned by Me) or
\* timeout (with no result); outside the wait neither the subscription nor the
\* timer can act, and an outcome once returned never changes, whatever
\* arrives on the ledger later.
C4_RaceState ==
    /\ \A i \in Completed :
         /\ results[i].outcome = "Ok" => ReturnsSafeOfMe(results[i])
         /\ results[i].outcome = "Timeout" => results[i].value = NoValue
    /\ dpc # "await" =>
         /\ clock = 0
         /\ ~ENABLED AwaitResolve
         /\ ~ENABLED AwaitTick
         /\ ~ENABLED AwaitTimeout

C4_RaceStep ==
    /\ \A i \in Completed : i \in DOMAIN results' /\ results'[i] = results[i]
    /\ (dpc = "await" /\ dpc' # "await") =>
         /\ Len(results') = Len(results) + 1
         /\ results'[Len(results')].outcome \in {"Ok", "Timeout"}

C4_RaceHasOneWinner == [][C4_RaceStep]_vars /\ []C4_RaceState

\* a call lost the race to the timer, the confirmation arrived afterwards, and a
\* later call won the race with it
C4_Witness ==
    \E i \in Completed, j \in Completed :
        /\ i < j
        /\ results[i].outcome = "Timeout"
        /\ ~results[i].existed
        /\ results[j].outcome = "Ok"
        /\ ReturnsSafeOfMe(results[j])

\* C5: a failed submit_transaction is returned to the caller: the call does not
\* go on to the confirmation wait and does not return anything but that error.
C5_SubmitErrorPropagates ==
    /\ dpc = "await" => submitRes # "err"
    /\ \A i \in Completed :
         results[i].submitRes = "err" => results[i].outcome = "SubmitError"

\* C6: an undecodable contract-address blob fails the operation with the
\* type-conversion error, not the RPC error, before anything is built, signed
\* or submitted; in SafelessInteractor::new no connector is constructed.
C6_UndecodableBlob == info # NoInfo /\ ~info.blob_ok

C6_DecodeFailsFirst ==
    /\ C6_UndecodableBlob =>
         /\ dpc \in {"new_decode", "new_failed", "decode", "idle"}
         /\ dpc = "new_failed" => (newResult = "TypeConversion" /\ ~connectorBuilt)
         /\ dpc = "idle" =>
              /\ results # <<>>
              /\ results[Len(results)].outcome = "TypeConversion"
              /\ results[Len(results)].value = NoValue
         /\ calls > 0 => (nSign = 0 /\ nSubmit = 0 /\ nAwait = 0 /\ signedTx = NoTx)
    /\ newResult = "TypeConversion" => ~connectorBuilt
    /\ \A i \in Completed :
         results[i].outcome = "TypeConversion" =>
            (results[i].submits = 0 /\ results[i].submitRes = "none")

\* deploy_safe returned the type-conversion error for an undecodable blob
C6_Witness ==
    /\ C6_UndecodableBlob
    /\ dpc = "idle"
    /\ connectorBuilt
    /\ results # <<>>
    /\ results[Len(results)].outcome = "TypeConversion"

\* C7: no step of deploy is retried (each collaborator call happens at most
\* once per call), and a failed attempt is surfaced to the caller: a call whose
\* submission failed does not return success.
C7_SingleAttemptSurfaced ==
    /\ NoStepRepeated
    /\ \A i \in Completed :
         results[i].submitRes = "err" => results[i].outcome # "Ok"

(***************************************************************************)
(* Properties of the initialization sequence (checked under EdgliSpec).    *)
(***************************************************************************)
Notifications == SelectSeq(events, LAMBDA e : e.kind = "notify")

NotifiedStates == [i \in DOMAIN Notifications |-> Notifications[i].state]

\* C8: the observer is notified in enumeration order: the notified states are
\* strictly increasing (none twice, none revisited), every piece of work of a
\* step comes after the notification of that step and before the notification
\* of the next, and a successful call has notified every state of the build,
\* ValidatingConfig first and Ready last.
C8_NotifiedInEnumerationOrder ==
    /\ \A i \in DOMAIN NotifiedStates :
         /\ NotifiedStates[i] \in InitStates
         /\ \A j \in DOMAIN NotifiedStates : i < j => NotifiedStates[i] < NotifiedStates[j]
    /\ ~hasVisitor => Notifications = <<>>
    /\ hasVisitor =>
         \A j \in DOMAIN events :
            events[j].kind # "notify" =>
               \E i \in 1..(j - 1) :
                  /\ events[i].kind = "notify"
                  /\ \A k \in i..j : events[k].state = events[j].state
    /\ (hasVisitor /\ initResult = "Ok") =>
         NotifiedStates =
            IF featBlokli
            THEN <<ValidatingConfig, IdentifyingNode, InitializingDatabase,
                   ConnectingBlockchain, CreatingNode, StartingNode, Ready>>
            ELSE <<ValidatingConfig, IdentifyingNode, InitializingDatabase,
                   CreatingNode, StartingNode, Ready>>

\* Edgli::new succeeded under an observer that saw all seven states
C8_Witness ==
    /\ hasVisitor
    /\ featBlokli
    /\ initResult = "Ok"
    /\ Len(Notifications) = 7
    /\ Len(events) = 14

\* C9: with an IPv4 loopback bind address and prefer_local_addresses false the
\* call fails in ValidatingConfig: no later state is notified and no later work
\* is done, no database is opened, no connector is built, no handshake and no
\* network call is made.
C9_ForbiddenLoopback ==
    /\ cfgHost.type = "IPv4"
    /\ Len(cfgHost.address) = 4
    /\ \A i \in 1..4 : cfgHost.address[i] \in 0..255
    /\ cfgHost.address[1] = 127
    /\ ~preferLocal

C9_LoopbackFailsInValidation ==
    C9_ForbiddenLoopback =>
        /\ ipc \in {"validating", "failed"}
        /\ ipc = "failed" => initResult = "LoopbackError"
        /\ initResult \in {"none", "LoopbackError"}
        /\ \A j \in DOMAIN events : events[j].state = ValidatingConfig
        /\ ~dbOpened /\ ~safeConnector /\ ~nodeCreated /\ ~nodeRunning
        /\ connectCalls = 0
        /\ netCalls = 0

\* the call failed on a loopback address other than 127.0.0.1, observer present
C9_Witness ==
    /\ C9_ForbiddenLoopback
    /\ cfgHost.address = <<127, 255, 0, 3>>
    /\ hasVisitor
    /\ ipc = "failed"
    /\ initResult = "LoopbackError"
    /\ NotifiedStates = <<ValidatingConfig>>

\* C10: when Edgli::new returns a configuration error (unparsable bind
\* address, forbidden loopback address, invalid database path, malformed
\* provider URL), the node database has not been opened and no chain connector
\* has been built.
ConfigurationErrors == {"ConfigError", "LoopbackError", "InvalidDbPath", "UrlParseError"}

C10_ConfigErrorsBeforeResources ==
    initResult \in ConfigurationErrors => (~dbOpened /\ ~safeConnector)

\* C11: Ready is notified, and Edgli::new returns the agent, only after
\* node.run has returned without error: a Ready notification is preceded by the
\* node_run work, itself preceded by the StartingNode notification.
C11_ReadyOnlyAfterRun ==
    /\ ipc \in {"ready", "returned"} => nodeRunning
    /\ initResult = "Ok" =>
         /\ nodeCreated /\ nodeRunning
         /\ \E j \in DOMAIN events : events[j].kind = "node_run"
    /\ \A i \in DOMAIN events :
         (events[i].kind = "notify" /\ events[i].state = Ready) =>
            /\ nodeRunning
            /\ \E j \in 1..(i - 1) :
                  /\ events[j].kind = "node_run"
                  /\ \E k \in 1..(j - 1) :
                        events[k].kind = "notify" /\ events[k].state = StartingNode

\* Ready was the last notification of a successful call of the build without connector
C11_Witness ==
    /\ hasVisitor
    /\ ~featBlokli
    /\ initResult = "Ok"
    /\ nodeRunning
    /\ events # <<>>
    /\ events[Len(events)] = [kind |-> "notify", state |-> Ready]

\* C12: a failing step halts the sequence: the call returns that error, Ready is
\* never notified, nothing of a later step has been done, and after the failure
\* no notification and no work follows.
C12_FailedState ==
    /\ initResult \notin {"none", "Ok"} <=> ipc = "failed"
    /\ ipc = "failed" =>
         /\ ~ENABLED EdgliNext
         /\ ~nodeRunning
         /\ events # <<>>
         /\ events[Len(events)].kind # "notify"
         /\ \A i \in DOMAIN events :
              /\ events[i].state <= events[Len(events)].state
              /\ events[i].state # Ready
         /\ nodeCreated => initResult = "RunError"
         /\ safeConnector => initResult \in {"ConnectError", "NodeError", "RunError"}
         /\ dbOpened => initResult \in {"UrlParseError", "ConnectorError", "ConnectError",
                                        "NodeError", "RunError"}

C12_FailedStep == ipc = "failed" => UNCHANGED edgliVars

C12_FailureHalts == [][C12_FailedStep]_vars /\ []C12_FailedState

\* the handshake failed after the database was opened and the connector built
C12_Witness ==
    /\ hasVisitor
    /\ ipc = "failed"
    /\ initResult = "ConnectError"
    /\ dbOpened /\ safeConnector /\ ~nodeCreated
    /\ NotifiedStates = <<ValidatingConfig, IdentifyingNode, InitializingDatabase,
                          ConnectingBlockchain>>

(***************************************************************************)
(* Properties of the signal supervisor (checked under SupervisorSpec).     *)
(***************************************************************************)
TornDown == supResult \in {"Killed", "Ok", "Err"}

\* C13: on INT every handle of the registry has received abort() before the
\* default handler of the signal is emulated and before the supervisor returns,
\* whatever the number of registered processes; after the signal the loop has
\* ended.
C13_AbortedState ==
    /\ defaultHandler # "none" => abortCalls = Handles
    /\ TornDown =>
         /\ abortCalls = Handles
         /\ spc = "returned"
         /\ ~ENABLED SupervisorNext
    /\ abortCalls # {} => spc \in {"aborting", "returned"}

C13_DefaultStep ==
    defaultHandler' # defaultHandler =>
        /\ abortCalls = Handles
        /\ abortCalls' = abortCalls
        /\ spc = "aborting" /\ spc' = "returned"

C13_AllAbortedBeforeDefault == [][C13_DefaultStep]_vars /\ []C13_AbortedState

\* a registry of three processes of both kinds was torn down by INT
C13_Witness ==
    /\ Len(processes) = MaxProcs
    /\ {processes[h] : h \in Handles} = ProcessKinds
    /\ abortCalls = Handles
    /\ defaultHandler = "applied"
    /\ supResult = "Killed"

\* C14: handling HUP aborts nothing, leaves the registry alone, does not emulate
\* the default handler and leaves the loop running; INT is still accepted after
\* any number of HUP signals and then aborts every handle.
C14_HupStep ==
    hups' # hups =>
        /\ spc = "loop" /\ spc' = "loop"
        /\ UNCHANGED <<processes, abortCalls, defaultHandler, supResult>>

C14_AfterHups ==
    /\ (spc = "loop" /\ hups > 0) =>
         /\ ENABLED HandleInt
         /\ abortCalls = {} /\ defaultHandler = "none" /\ supResult = "none"
    /\ (hups > 0 /\ TornDown) => abortCalls = Handles

C14_HupIsNoOp == [][C14_HupStep]_vars /\ []C14_AfterHups

\* INT tore down a registry of two processes after MaxHups HUP signals
C14_Witness ==
    /\ hups = MaxHups
    /\ Len(processes) = 2
    /\ abortCalls = Handles
    /\ TornDown

(***************************************************************************)
(* Properties of run_hopr_edge_node_with (checked under RunWithSpec).      *)
(***************************************************************************)
\* C15: when the spawned task ends abnormally, the failure is taken from its
\* join result and is visible to the caller as a task-join error.
C15_TaskFailureSurfaced ==
    taskState = "panicked" => JoinResult = "TaskJoinError"

(***************************************************************************)
(* Properties of the strategy reactor (checked under ReactorSpec).         *)
(***************************************************************************)
Passes == {i \in DOMAIN log : log[i].ran}

Failed(i) == \E k \in DOMAIN log[i].pass : log[i].pass[k].result = "failed"

C17_OnFailContinue ==
    /\ DefaultStrategies = <<"AutoFunding", "ClosureFinalizer">>
    /\ \A i \in Passes :
         LET pass == log[i].pass
         IN  /\ Len(pass) <= Len(DefaultStrategies)
             /\ \A k \in DOMAIN pass : pass[k].strategy = DefaultStrategies[k]
             /\ onFailContinue => Len(pass) = Len(DefaultStrategies)
             /\ ~onFailContinue =>
                  /\ \A k \in 1..(Len(pass) - 1) : pass[k].result = "ok"
                  /\ Len(pass) < Len(DefaultStrategies) =>
                        pass[Len(pass)].result = "failed"

\* with the default on_fail_continue, ClosureFinalizer was evaluated in a pass
\* in which AutoFunding had failed
C17_Witness ==
    /\ onFailContinue = DefaultOnFailContinue
    /\ \E i \in Passes :
         log[i].pass = <<[strategy |-> "AutoFunding", result |-> "failed"],
                         [strategy |-> "ClosureFinalizer", result |-> "ok"]>>

\* C18: a failed strategy does not end the reactor, for both values of
\* on_fail_continue: after such a pass the reactor is running unless its handle
\* was aborted, it takes the next stimulus, and the node keeps running.
C18_AfterFailure ==
    (\E i \in Passes : Failed(i)) =>
        /\ reactor \in {"running", "aborted"}
        /\ nodeRunning
        /\ (reactor = "running" /\ Len(log) < MaxStimuli) =>
              ENABLED ChainEvent /\ ENABLED TicketEvent

C18_ReactorStep ==
    /\ reactor' # reactor =>
         \/ reactor = "none"
         \/ reactor' = "aborted" /\ log' = log
    /\ nodeRunning => nodeRunning'

C18_FailureKeepsReactor == [][C18_ReactorStep]_vars /\ []C18_AfterFailure

\* with on_fail_continue = false, a stimulus was handled after a failed pass
C18_Witness ==
    /\ ~onFailContinue
    /\ reactor = "running"
    /\ nodeRunning
    /\ Len(log) >= 2
    /\ log[1].ran /\ Failed(1)
    /\ log[2].at > log[1].at

(***************************************************************************)
(* Properties of SafeModuleDeploymentInputs: deploy under ContractSpec,     *)
(* build_user_data under UserDataSpec.                                     *)
(***************************************************************************)
Emitted(event) == \E i \in DOMAIN receipt.logs : receipt.logs[i].event = event

\* the instance of the first log of the event in the receipt
FirstEmitted(event, instance) ==
    \E i \in DOMAIN receipt.logs :
        /\ receipt.logs[i] = [event |-> event, instance |-> instance]
        /\ \A j \in 1..(i - 1) : receipt.logs[j].event # event

DecodeError(event) ==
    [kind |-> "Err", error |-> "DecodeEventError", event |-> event]

\* C19: deploy returns Ok only for a receipt holding both the safe and the module
\* event, with the addresses those events emitted and the hash of the receipt; a
\* receipt lacking one of them gives the decode error naming the missing event,
\* which no missing receipt (a timeout) ever gives.
C19_BothEventsOrDecodeError ==
    /\ deployResult.kind = "Ok" =>
         /\ receipt # NoReceipt
         /\ deployResult.tx_hash = receipt.transaction_hash
         /\ FirstEmitted("NewHoprNodeStakeSafe", deployResult.safe_address)
         /\ FirstEmitted("NewHoprNodeStakeModule", deployResult.module_address)
    /\ (cpc = "returned" /\ receipt # NoReceipt) =>
         /\ ~Emitted("NewHoprNodeStakeSafe") =>
               deployResult = DecodeError("NewHoprNodeStakeSafe")
         /\ (Emitted("NewHoprNodeStakeSafe") /\ ~Emitted("NewHoprNodeStakeModule")) =>
               deployResult = DecodeError("NewHoprNodeStakeModule")
    /\ deployResult.kind = "Err" =>
         /\ deployResult.error = "DecodeEventError" =>
               receipt # NoReceipt /\ ~Emitted(deployResult.event)
         /\ deployResult.error = "PendingTransactionError" => receipt = NoReceipt

\* the receipt held the safe event only
C19_Witness ==
    /\ cpc = "returned"
    /\ receipt.logs = <<[event |-> "NewHoprNodeStakeSafe", instance |-> "a1"],
                        [event |-> "Transfer", instance |-> "a2"]>>
    /\ deployResult = DecodeError("NewHoprNodeStakeModule")

\* C20: two calls of build_user_data with the same inputs and network return the
\* same bytes; the bytes are the ABI encoding of the tuple (identifier, nonce,
\* default target, admins) without its first 32 bytes, and these 32 bytes are the
\* offset word of the tuple.
C20_UserDataIsEncodingSansOffset ==
    /\ \A i, j \in DOMAIN built :
         (built[i].network = built[j].network) => built[i].out = built[j].out
    /\ \A i \in DOMAIN built :
         LET b == built[i]
             encoded == AbiEncode(DEPLOY_SAFE_MODULE_AND_INCLUDE_NODES_IDENTIFIER,
                                  b.nonce, BuildDefaultTarget(b.network), b.admins)
         IN  /\ b.nonce = inputs.nonce /\ b.admins = inputs.admins
             /\ SubSeq(encoded, 1, 32) = Word(32)
             /\ Word(32) \o b.out = encoded
             /\ Len(b.out) = 32 * (5 + Len(b.admins))
             /\ SubSeq(b.out, 1, 32) = DEPLOY_SAFE_MODULE_AND_INCLUDE_NODES_IDENTIFIER
             /\ SubSeq(b.out, 33, 64) = BigEndian(b.nonce, 32)
             /\ SubSeq(b.out, 65, 96) = BuildDefaultTarget(b.network)

\* nonce 7 and MaxAdmins admins were encoded twice for the same network
C20_Witness ==
    /\ Len(built) = 2
    /\ built[1].network = built[2].network
    /\ built[1].out = built[2].out
    /\ built[1].nonce = 7
    /\ Len(built[1].admins) = MaxAdmins
    /\ built[1].admins[1] # built[1].admins[2]

\* the default target inside the bytes returned by build_user_data: the third
\* word, after the identifier and the nonce
TargetOf(out) == SubSeq(out, 65, 96)

\* C21: the default target of the payload is the 20 bytes of the channels
\* address of the network followed by the 12 bytes 0x010103020202020202020202,
\* 32 bytes in all, for every network.
C21_DefaultTargetLayout ==
    /\ \A net \in Networks : Len(BuildDefaultTarget(net)) = 32
    /\ \A i \in DOMAIN built :
         LET target == TargetOf(built[i].out)
         IN  /\ Len(target) = 32
             /\ SubSeq(target, 1, 20) = ChannelsAddress(built[i].network)
             /\ SubSeq(target, 21, 32) = <<1, 1, 3, 2, 2, 2, 2, 2, 2, 2, 2, 2>>
             /\ Len(built[i].out) % 32 = 0

\* user data was built for both networks, so with two channels addresses
C21_Witness ==
    /\ Len(built) = 2
    /\ {built[i].network : i \in DOMAIN built} = Networks
    /\ TargetOf(built[1].out) # TargetOf(built[2].out)
    /\ SubSeq(TargetOf(built[1].out), 21, 32) = SubSeq(TargetOf(built[2].out), 21, 32)

(***************************************************************************)
(* Further properties of Edgli::new (checked under EdgliSpec).             *)
(***************************************************************************)
ConnectAttempts == {i \in DOMAIN events : events[i].kind = "connect"}

\* C22: connect() of the safe-bound connector is attempted once: a failure is
\* returned without a second attempt, and then CreatingNode, StartingNode and
\* Ready are not reached; a node is only created after the one attempt.
C22_ConnectOnce ==
    /\ connectCalls <= 1
    /\ Cardinality(ConnectAttempts) = connectCalls
    /\ ~featBlokli => connectCalls = 0
    /\ (featBlokli /\ nodeCreated) => connectCalls = 1
    /\ initResult = "ConnectError" =>
         /\ connectCalls = 1
         /\ ipc = "failed"
         /\ ~nodeCreated /\ ~nodeRunning
         /\ events[Len(events)].kind = "connect"
         /\ \A i \in DOMAIN events :
              events[i].state \notin {CreatingNode, StartingNode, Ready}

\* the handshake with a given URL failed, without an observer
C22_Witness ==
    /\ ~hasVisitor
    /\ blokliUrl # "none"
    /\ initResult = "ConnectError"
    /\ connectCalls = 1
    /\ safeConnector

(***************************************************************************)
(* Further properties of the deployment pipeline (checked under            *)
(* DeploySpec).                                                            *)
(***************************************************************************)
\* the successor positions of each step of deploy_safe
DeployOrder ==
    {<<"query", "decode">>, <<"decode", "build">>, <<"build", "sign">>,
     <<"sign", "submit">>, <<"submit", "await">>}

\* C23: deploy_safe goes through query, decode, build, sign, submit and wait in
\* this order: what is submitted is what was signed, after a successful signing;
\* the signature carries the chain id of the query of the same call and the
\* nonce of the inputs; the wait starts once the submission has returned.
C23_OrderState ==
    /\ nQuery <= 1 /\ nSign <= nQuery /\ nSubmit <= nSign /\ nAwait <= nSubmit
    /\ dpc = "decode" => (nQuery = 1 /\ info # NoInfo /\ nSign = 0)
    /\ dpc \in {"build", "sign"} => (info # NoInfo /\ info.blob_ok /\ nSign = 0)
    /\ signedTx # NoTx =>
         /\ info # NoInfo
         /\ nonce.hi = 0
         /\ signedTx = [nonce |-> nonce.lo, chain_id |-> info.chain_id, signer |-> Me]
    /\ (dpc = "submit" \/ nSubmit > 0) => (nSign = 1 /\ signedTx # NoTx)
    /\ \A m \in mempool : m.seq = calls => (nSubmit = 1 /\ m.tx = signedTx)
    /\ (dpc = "await" \/ nAwait > 0) => (nSubmit = 1 /\ submitRes # "none")

C23_OrderStep ==
    (dpc \in {"query", "decode", "build", "sign", "submit", "await"} /\ dpc' # dpc) =>
        \/ <<dpc, dpc'>> \in DeployOrder
        \/ dpc # "submit" /\ dpc' = "idle"

C23_FixedOrder == [][C23_OrderStep]_vars /\ []C23_OrderState

\* the second call waits for a transaction signed for chain 10200 with nonce 7
C23_Witness ==
    /\ calls = 2
    /\ dpc = "await"
    /\ submitRes = "ok"
    /\ nonce = U256(0, 7)
    /\ info.chain_id = 10200
    /\ [tx |-> signedTx, seq |-> calls] \in mempool

(***************************************************************************)
(* Further properties of run_hopr_edge_node_with (checked under            *)
(* RunWithSpec).                                                           *)
(***************************************************************************)
\* C24: abort() on the returned handle stops the task at its next suspension
\* point, for good; it never stops it in the middle of a poll, and what the task
\* had committed stays committed.
C24_AbortStep ==
    /\ taskAbort' # taskAbort => UNCHANGED <<taskState, taskEffects>>
    /\ (taskState' = "aborted" /\ taskState # "aborted") =>
         /\ taskState = "running"
         /\ taskAbort
         /\ taskEffects' = taskEffects
    /\ taskState = "aborted" => UNCHANGED <<taskState, taskEffects>>
    /\ taskEffects' >= taskEffects
    /\ taskEffects' # taskEffects => (taskState = "polling" /\ taskState' = "polling")

C24_AbortState ==
    /\ (taskAbort /\ taskState = "running") => (~ENABLED TaskPoll /\ ENABLED TaskAborted)
    /\ taskState = "aborted" =>
         /\ taskAbort
         /\ ~ENABLED TaskPoll /\ ~ENABLED TaskEffect /\ ~ENABLED TaskSuspend
         /\ ~ENABLED TaskFinishes /\ ~ENABLED TaskPanics

C24_CooperativeCancellation == [][C24_AbortStep]_vars /\ []C24_AbortState

\* the task was aborted after it had committed MaxEffects side effects
C24_Witness ==
    /\ taskState = "aborted"
    /\ taskEffects = MaxEffects

(***************************************************************************)
(* Connector instances (checked under ReactorSpec).                        *)
(***************************************************************************)
\* C25: the connector of the MultiStrategy and of the chain event subscription
\* of run_reactor_from_cfg is the one connector that Edgli::new built, connected
\* and gave to the node; the reactor constructs none.
C25_SharedState ==
    /\ connectors <= 1
    /\ \A h \in Holders : connOf[h] \in {0, connOf["chain_connector"]}
    /\ connOf["node"] # 0 => connectCalls = 1
    /\ connOf["strategy"] # 0 =>
         /\ connOf["strategy"] = connOf["node"]
         /\ connOf["strategy"] = connOf["blokli_connector"]
    /\ reactor \in {"running", "aborted"} =>
         /\ connOf["strategy"] # 0
         /\ connOf["subscription"] = connOf["strategy"]

C25_ReactorStep == reactor' # reactor => connectors' = connectors

C25_SharedConnector == [][C25_ReactorStep]_vars /\ []C25_SharedState

\* the running reactor took a chain event from the connector of the node
C25_Witness ==
    /\ reactor = "running"
    /\ connOf["subscription"] = connOf["node"]
    /\ connOf["node"] = connectors
    /\ connectors = 1
    /\ \E i \in DOMAIN log : log[i].class = "chain_event"

(***************************************************************************)
(* What starts after initialization (checked under StartSpec).             *)
(***************************************************************************)
ReadyNotified ==
    \E i \in DOMAIN events : events[i] = [kind |-> "notify", state |-> Ready]

\* C26: the task of f is spawned, and the abort handle returned, only after
\* Edgli::new returned Ok; after a failed initialization f is not called, nothing
\* is spawned and no handle is returned; the reactor does not exist before Ready.
C26_StartState ==
    /\ (taskState # "none" \/ withResult = "AbortHandle" \/ joinHandle # "none") =>
         /\ initResult = "Ok"
         /\ ipc = "returned"
         /\ nodeRunning
         /\ withResult = "AbortHandle" /\ taskState # "none"
         /\ hasVisitor => ReadyNotified
    /\ initResult \notin {"none", "Ok"} =>
         /\ taskState = "none" /\ joinHandle = "none" /\ taskEffects = 0
         /\ withResult \in {"none", "Err"}
         /\ reactor = "none"
         /\ ~ENABLED RunWithSpawns /\ ~ENABLED RunReactorFromCfg
    /\ initResult = "none" => (~ENABLED RunWithSpawns /\ ~ENABLED RunReactorFromCfg)
    /\ reactor # "none" =>
         /\ initResult = "Ok"
         /\ nodeRunning
         /\ hasVisitor => ReadyNotified

C26_StartStep ==
    (taskState = "none" /\ taskState' # "none") =>
        /\ initResult = "Ok"
        /\ withResult' = "AbortHandle"

C26_StartsAfterReady == [][C26_StartStep]_vars /\ []C26_StartState

\* the task was spawned after the notification of Ready
C26_Witness ==
    /\ hasVisitor
    /\ ReadyNotified
    /\ withResult = "AbortHandle"
    /\ taskState = "running"
    /\ taskEffects = 0
    /\ ~taskAbort


\* the outcomes deploy_safe can return before the payload is signed
ErrorsBeforeSigning == {"RpcError", "TypeConversion", "PayloadError", "NonceConversion"}

\* C27: a deployment nonce of at least 2^64 does not fit the 64-bit transaction
\* nonce: the conversion fails before anything is signed, deploy_safe returns an
\* error and nothing is submitted; a nonce below 2^64 is signed unchanged.
C27_NonceState ==
    /\ (calls > 0 /\ ~TryIntoU64(nonce).ok) =>
         /\ nonce.hi # 0
         /\ dpc \in {"query", "decode", "build", "sign", "idle"}
         /\ nSign = 0 /\ nSubmit = 0 /\ nAwait = 0
         /\ signedTx = NoTx /\ submitRes = "none"
         /\ \A m \in mempool : m.seq # calls
         /\ dpc = "idle" =>
              /\ Len(results) = calls
              /\ results[calls].outcome \in ErrorsBeforeSigning
              /\ results[calls].value = NoValue
              /\ results[calls].submits = 0
    /\ signedTx # NoTx =>
         /\ nonce.hi = 0
         /\ signedTx.nonce = nonce.lo
         /\ U256(0, signedTx.nonce) = nonce
    /\ \A i \in Completed :
         results[i].outcome = "NonceConversion" =>
            (results[i].submits = 0 /\ results[i].submitRes = "none")

C27_NonceStep ==
    (dpc = "sign" /\ nonce.hi # 0 /\ dpc' # dpc) =>
        /\ dpc' = "idle"
        /\ results' = Append(results, [outcome |-> "NonceConversion", value |-> NoValue,
                                        submits |-> 0, existed |-> safeAtCall,
                                        submitRes |-> "none"])
        /\ nSign' = 0 /\ signedTx' = NoTx /\ mempool' = mempool

C27_NonceFitsOrFails == [][C27_NonceStep]_vars /\ []C27_NonceState

\* deploy_safe returned the conversion error for a nonce of at least 2^64, after
\* the query, the decoding and the payload construction had succeeded
C27_Witness ==
    /\ dpc = "idle"
    /\ calls > 0
    /\ nonce = U256(1, 7)
    /\ info # NoInfo /\ info.blob_ok
    /\ Len(results) = calls
    /\ results[calls].outcome = "NonceConversion"
    /\ nSign = 0 /\ nSubmit = 0

(***************************************************************************)
(* The observer of Edgli::new (checked under EdgliSpec).                   *)
(***************************************************************************)
\* the step actions performed so far: the trace without the notifications
WorkTrace == SelectSeq(events, LAMBDA ev : ev.kind # "notify")

\* the statements of Edgli::new in program order for the configuration of the
\* call; the observer is no input of it
ConfigPath ==
    <<[kind |-> "validate", state |-> ValidatingConfig],
      [kind |-> "log_identifiers", state |-> IdentifyingNode],
      [kind |-> IF dbPathUtf8 THEN "init_hopr_node_db" ELSE "path_to_str",
       state |-> InitializingDatabase]>>
    \o (IF featBlokli
        THEN <<[kind |-> IF blokliUrl # "none" /\ ~ParsesAsUrl(blokliUrl)
                         THEN "parse_url" ELSE "create_connector",
                state |-> ConnectingBlockchain],
               [kind |-> "connect", state |-> ConnectingBlockchain]>>
        ELSE <<>>)
    \o <<[kind |-> "hopr_new", state |-> CreatingNode],
          [kind |-> "node_run", state |-> StartingNode]>>

\* the error with which Edgli::new returns when the statement `what` fails
ErrorOf(what) ==
    CASE what = "validate" -> ValidateHost(cfgHost, preferLocal)
      [] what = "path_to_str" -> "InvalidDbPath"
      [] what = "init_hopr_node_db" -> "DbError"
      [] what = "parse_url" -> "UrlParseError"
      [] what = "create_connector" -> "ConnectorError"
      [] what = "connect" -> "ConnectError"
      [] what = "hopr_new" -> "NodeError"
      [] what = "node_run" -> "RunError"

\* the statements that fail for the configuration alone
FailsByConfig(what) ==
    \/ what = "validate" /\ ValidateHost(cfgHost, preferLocal) # "Ok"
    \/ what \in {"path_to_str", "parse_url"}

\* the position of Edgli::new in front of the statement `what`
PositionOf(what) ==
    CASE what = "validate" -> "validating"
      [] what = "log_identifiers" -> "identifying"
      [] what \in {"path_to_str", "init_hopr_node_db"} -> "init_db"
      [] what \in {"parse_url", "create_connector"} -> "connecting"
      [] what = "connect" -> "connect"
      [] what = "hopr_new" -> "creating"
      [] what = "node_run" -> "starting"

\* C28: the observer is a pure notification sink: the step actions performed
\* and the outcome of Edgli::new (success, or the error of the failing step) are
\* determined by the configuration and the results of the collaborators, the
\* same with and without an observer; an observer only adds its notifications
\* to the trace, and without one the trace holds the step actions alone.
C28_ObserverState ==
    LET n == Len(WorkTrace)
    IN  /\ n <= Len(ConfigPath)
        /\ WorkTrace = SubSeq(ConfigPath, 1, n)
        /\ ipc = "returned" <=> initResult = "Ok"
        /\ ipc = "returned" => WorkTrace = ConfigPath
        /\ ipc = "failed" =>
              /\ n > 0
              /\ initResult = ErrorOf(WorkTrace[n].kind)
              /\ initResult \notin {"Ok", "none"}
        /\ ipc \notin {"returned", "failed"} =>
              /\ initResult = "none"
              /\ n > 0 => ~FailsByConfig(WorkTrace[n].kind)
              /\ ipc = IF n < Len(ConfigPath) THEN PositionOf(ConfigPath[n + 1].kind)
                                               ELSE "ready"
        /\ ~hasVisitor => events = WorkTrace
        /\ hasVisitor =>
              /\ {Notifications[i].state : i \in DOMAIN Notifications}
                   = {WorkTrace[i].state : i \in 1..n}
                       \cup (IF ipc = "returned" THEN {Ready} ELSE {})
              /\ Len(events) = n + Len(Notifications)

C28_ObserverStep ==
    /\ hasVisitor' = hasVisitor
    /\ \/ WorkTrace' = WorkTrace
       \/ /\ Len(WorkTrace) < Len(ConfigPath)
          /\ WorkTrace' = Append(WorkTrace, ConfigPath[Len(WorkTrace) + 1])

C28_ObserverIsPureSink == [][C28_ObserverStep]_vars /\ []C28_ObserverState

\* a call without an observer has succeeded after every statement of the
\* configuration's path, the connector steps included
C28_Witness ==
    /\ ~hasVisitor
    /\ featBlokli
    /\ ipc = "returned"
    /\ initResult = "Ok"
    /\ events = ConfigPath
    /\ Len(events) = 7
====
